---- MODULE Spec2Model ----
(***************************************************************************)
(* Model of the bloom-backend request handlers: the upload handlers        *)
(* (POST /api/plant-stages/upload, POST /api/photos/add,                   *)
(* POST /api/plants/:plantId/stages), the photo delete and edit handlers,   *)
(* the note delete handler, the object keys and URLs of uploadFile and     *)
(* deleteFile, and the GET /api/plants read path with its per-row assembly.*)
(*                                                                         *)
(* A request is an async handler: it runs without interruption between two *)
(* awaits, so every action below is the code between one await and the     *)
(* next.  The outcome of an I/O call (object store, database) is chosen    *)
(* by the environment: "ok" or "fail" (the awaited promise rejects).       *)
(***************************************************************************)
EXTENDS Integers, Sequences, FiniteSets, TLC

\* ------------------------------------------------------------------ bounds
MaxReq == 2
\* rows in a result set of the listing check
MaxRows == 2

\* ------------------------------------------------------- program constants
connectionLimit == 10

Req == 1..MaxReq

\* rows of the plants table / plant objects that exist; plant 1 belongs to user 1
Plants == {1}

Outcomes == {"ok", "fail"}

VARIABLES
  blobs,       \* object store: the set of keys that hold a blob
  rows,        \* relational store: the committed rows of every table
  checkedOut,  \* pool connections currently checked out
  nextUuid,    \* source of uuidv4() values: every call returns a fresh one
  nextId,      \* AUTO_INCREMENT counter shared by the tables
  req,         \* per request: inputs, locals, position in the handler, response
  raw,         \* assembly check: the raw row handed to the row mapping
  agg,         \* assembly check: what the row mapping returned for raw
  fetched,     \* listing check: results[0], the rows of a stored-procedure result
  response,    \* listing check: what GET /api/plants answered for fetched
  naming       \* key check: an upload's inputs, its object key and URL, the key deleted

vars == <<blobs, rows, checkedOut, nextUuid, nextId, req, raw, agg, fetched, response, naming>>

\* ---------------------------------------------------------------- requests
NoReq ==
  [kind |-> "none", variant |-> "none", pc |-> "idle",
   file |-> FALSE, status |-> FALSE, plantId |-> 0, userId |-> 0,
   photoId |-> 0, dateTaken |-> "none", meta |-> "none", image |-> 0,
   key |-> 0, rowId |-> 0, date |-> "none", tx |-> {}, conn |-> FALSE,
   resp |-> 0, msg |-> "none", err |-> FALSE, body |-> <<>>,
   putTried |-> FALSE, putOk |-> FALSE, dbTried |-> FALSE,
   writeTried |-> FALSE, txFailed |-> FALSE, committed |-> FALSE, dated |-> FALSE,
   delTried |-> FALSE, delKey |-> 0, dbDeleted |-> FALSE, noMatch |-> FALSE,
   seenAdds |-> {}, seenDels |-> {}, noteId |-> 0, stageId |-> 0, dbUpdated |-> FALSE,
   error |-> <<>>]

\* res.status(code).json({message: msg, ...}): the handler is finished
Respond(q, code, m) == [q EXCEPT !.pc = "done", !.resp = code, !.msg = m]

\* res.status(code).json({message: msg, error: error.message})
RespondError(q, code, m) == [Respond(q, code, m) EXCEPT !.err = TRUE]

Idle(r) == req[r].pc = "idle" /\ \A s \in Req : s < r => req[s].pc # "idle"

\* an object-store key: plants/<userId>/<plantObjId>/<uuid>-<name>, or plants/<plantId>/<uuid>-<name>
\* (user 0) for the stage uploads; name is the uuid-prefixed file name
Key(user, plant, name) == [user |-> user, plant |-> plant, name |-> name]

\* a row of a table
Row(tbl, id, user, plant, image, date) ==
  [tbl |-> tbl, id |-> id, user |-> user, plant |-> plant, image |-> image, date |-> date,
   stage |-> 0]

\* ------------------------------------------------ relational transactions
\* a commit that makes only the plant_stages rows visible
CommitRows_StagesOnly(committed, pending) ==
  committed \cup {x \in pending : x.tbl = "plant_stages"}

\* connection.commit(): the pending rows of the transaction become visible
CommitRows(committed, pending) == committed \cup pending

\* a release that does not hand the connection back
release_Never(n) == n

\* connection.release(): the connection goes back to the pool
release(n) == n - 1

\* a rollback that leaves the pending rows in the store
RollbackRows_Keep(committed, pending) == committed \cup pending

\* connection.rollback(): the pending rows of the transaction are discarded
RollbackRows(committed, pending) == committed

\* ------------------------------------------- POST /api/plant-stages/upload
\* The transactional variant (part_003; part_008 has the same steps without the
\* inner try around the upload).
\* the test without the status label
StageMissingFields_NoStatus(file, status, plantId) == ~file \/ plantId = 0

\* if (!req.file || !req.body.status || !req.body.plantId)
StageMissingFields(file, status, plantId) == ~file \/ ~status \/ plantId = 0

\* the request shapes: complete (existing plant, unknown plant) and one field missing
StageInputs ==
  { [file |-> TRUE,  status |-> TRUE,  plantId |-> 1],
    [file |-> TRUE,  status |-> TRUE,  plantId |-> 2],
    [file |-> FALSE, status |-> TRUE,  plantId |-> 1],
    [file |-> TRUE,  status |-> FALSE, plantId |-> 1],
    [file |-> TRUE,  status |-> TRUE,  plantId |-> 0] }

\* a lookup without the WHERE clause
SelectPlant_Any(plantId) == Plants

\* SELECT id FROM plants WHERE id = ? [AND user_id = ?]: the rows returned
SelectPlant(plantId) == {p \in Plants : p = plantId}

\* the error text of a 500 answer: the prefixes put before the message of the error
\* that was thrown first
\*   throw new Error(`Database error: ${dbError.message}`)
dbError == <<"Database error">>

\*   catch (uploadError) { throw new Error(`S3 upload failed: ${uploadError.message}`) }
uploadError(message) == <<"S3 upload failed">> \o message

\* what to do once s3Client.send(PutObjectCommand) settled
StageAfterPut(o) == IF o = "ok" THEN "getConn" ELSE "fail500"

StageStart(r) ==
  /\ Idle(r)
  /\ \E in \in StageInputs :
       LET q == [req[r] EXCEPT !.kind = "stageUpload", !.variant = "p003",
                               !.file = in.file, !.status = in.status,
                               !.plantId = in.plantId]
       IN req' = [req EXCEPT ![r] =
                    IF StageMissingFields(in.file, in.status, in.plantId)
                    THEN Respond(q, 400, "Missing required fields")
                    ELSE [q EXCEPT !.pc = "checkPlant", !.dbTried = TRUE]]
  /\ UNCHANGED <<blobs, rows, checkedOut, nextUuid, nextId, raw, agg, fetched, response, naming>>

\* SELECT id FROM plants WHERE id = ?   then the key is generated and the put issued
StageCheckPlant(r) ==
  /\ req[r].kind = "stageUpload" /\ req[r].pc = "checkPlant"
  /\ \E o \in Outcomes :
       IF o = "fail"
       THEN /\ req' = [req EXCEPT ![r] = RespondError(@, 500, "Error uploading image")]
            /\ UNCHANGED nextUuid
       ELSE IF SelectPlant(req[r].plantId) = {}
       THEN /\ req' = [req EXCEPT ![r] = Respond(@, 404, "Plant not found")]
            /\ UNCHANGED nextUuid
       ELSE /\ req' = [req EXCEPT ![r] = [@ EXCEPT !.pc = "put", !.key = nextUuid,
                                                   !.putTried = TRUE]]
            /\ nextUuid' = nextUuid + 1
  /\ UNCHANGED <<blobs, rows, checkedOut, nextId, raw, agg, fetched, response, naming>>

\* await s3Client.send(new PutObjectCommand(...)); getImageDate; pool.getConnection()
StagePut(r) ==
  /\ req[r].kind = "stageUpload" /\ req[r].pc = "put"
  /\ \E o \in Outcomes :
       IF StageAfterPut(o) = "getConn"
       THEN /\ blobs' = IF o = "ok" THEN blobs \cup {Key(0, req[r].plantId, req[r].key)} ELSE blobs
            /\ req' = [req EXCEPT ![r] = [@ EXCEPT !.pc = "getConn", !.putOk = (o = "ok"),
                                                   !.date = "exif"]]
       ELSE /\ req' = [req EXCEPT ![r] =
                 RespondError([@ EXCEPT !.error = uploadError(<<>>)], 500,
                              "Error uploading image")]
            /\ UNCHANGED blobs
  /\ UNCHANGED <<rows, checkedOut, nextUuid, nextId, raw, agg, fetched, response, naming>>

\* const connection = await pool.getConnection();  await connection.beginTransaction()
\* while every connection is in use the pool queues the call (queueLimit: 0): it
\* settles, with a connection or with the error of opening one, once one is free
StageGetConn(r) ==
  /\ req[r].kind = "stageUpload" /\ req[r].pc = "getConn"
  /\ checkedOut < connectionLimit
  /\ \E o \in Outcomes :
       IF o = "ok"
       THEN /\ checkedOut < connectionLimit
            /\ checkedOut' = checkedOut + 1
            /\ req' = [req EXCEPT ![r] = [@ EXCEPT !.pc = "begin", !.conn = TRUE]]
       ELSE /\ req' = [req EXCEPT ![r] =
                 RespondError([@ EXCEPT !.error = uploadError(<<>>)], 500,
                              "Error uploading image")]
            /\ UNCHANGED checkedOut
  /\ UNCHANGED <<blobs, rows, nextUuid, nextId, raw, agg, fetched, response, naming>>

\* await connection.beginTransaction()
StageBegin(r) ==
  /\ req[r].kind = "stageUpload" /\ req[r].pc = "begin"
  /\ \E o \in Outcomes :
       req' = [req EXCEPT ![r] =
                 IF o = "ok" THEN [@ EXCEPT !.pc = "insert", !.writeTried = TRUE]
                 ELSE [@ EXCEPT !.pc = "rollback", !.txFailed = TRUE]]
  /\ UNCHANGED <<blobs, rows, checkedOut, nextUuid, nextId, raw, agg, fetched, response, naming>>

\* INSERT INTO plant_stages (plant_id, status, date_taken, image_url) VALUES (?, ?, ?, ?)
StageInsert(r) ==
  /\ req[r].kind = "stageUpload" /\ req[r].pc = "insert"
  /\ \E o \in Outcomes :
       IF o = "ok"
       THEN /\ req' = [req EXCEPT ![r] =
                 [@ EXCEPT !.pc = "select", !.rowId = nextId,
                           !.tx = @ \cup {Row("plant_stages", nextId, 0, req[r].plantId,
                                              req[r].key, req[r].date)}]]
            /\ nextId' = nextId + 1
       ELSE /\ req' = [req EXCEPT ![r] = [@ EXCEPT !.pc = "rollback", !.txFailed = TRUE]]
            /\ UNCHANGED nextId
  /\ UNCHANGED <<blobs, rows, checkedOut, nextUuid, raw, agg, fetched, response, naming>>

\* SELECT p.*, JSON_ARRAYAGG(...) as stages FROM plants p LEFT JOIN plant_stages ...
StageSelect(r) ==
  /\ req[r].kind = "stageUpload" /\ req[r].pc = "select"
  /\ \E o \in Outcomes :
       req' = [req EXCEPT ![r] =
                 IF o = "ok" THEN [@ EXCEPT !.pc = "commit"]
                 ELSE [@ EXCEPT !.pc = "rollback", !.txFailed = TRUE]]
  /\ UNCHANGED <<blobs, rows, checkedOut, nextUuid, nextId, raw, agg, fetched, response, naming>>

\* await connection.commit(); then the response is built from the selected row:
\* JSON.parse(updatedPlant[0].sensitivities || '[]'), JSON.parse(updatedPlant[0].stages || '[]')
\* throw when the text is not JSON; the throw lands in the same catch (rollback, 500)
StageCommit(r) ==
  /\ req[r].kind = "stageUpload" /\ req[r].pc = "commit"
  /\ \E o \in Outcomes, parsed \in BOOLEAN :
       IF o = "ok"
       THEN /\ rows' = CommitRows(rows, req[r].tx)
            /\ IF parsed
               THEN /\ checkedOut' = release(checkedOut)
                    /\ req' = [req EXCEPT ![r] =
                         Respond([@ EXCEPT !.tx = {}, !.conn = FALSE, !.committed = TRUE],
                                 200, "Stage added successfully")]
               ELSE /\ UNCHANGED checkedOut
                    /\ req' = [req EXCEPT ![r] =
                         [@ EXCEPT !.pc = "rollback", !.tx = {}, !.committed = TRUE]]
       ELSE /\ req' = [req EXCEPT ![r] = [@ EXCEPT !.pc = "rollback", !.txFailed = TRUE]]
            /\ UNCHANGED <<rows, checkedOut>>
  /\ UNCHANGED <<blobs, nextUuid, nextId, raw, agg, fetched, response, naming>>

\* catch (dbError): await connection.rollback(); throw new Error(`Database error: ...`);
\* finally connection.release(); the catch around it wraps what was thrown (the
\* database error, or the error of a rollback that failed); outermost catch: 500
StageRollback(r) ==
  /\ req[r].kind = "stageUpload" /\ req[r].pc = "rollback"
  /\ \E o \in Outcomes :
       /\ rows' = RollbackRows(rows, req[r].tx)
       /\ checkedOut' = release(checkedOut)
       /\ req' = [req EXCEPT ![r] =
            RespondError([@ EXCEPT !.tx = {}, !.conn = FALSE,
                                   !.error = uploadError(IF o = "ok" THEN dbError ELSE <<>>)],
                         500, "Error uploading image")]
  /\ UNCHANGED <<blobs, nextUuid, nextId, raw, agg, fetched, response, naming>>

\* ------------------------------------------ POST /api/plants/:plantId/stages
\* The route has no field validation; the plant id is a path parameter and the
\* image is optional (if (req.file) ...).
PlantStageInputs ==
  { [file |-> TRUE,  plantId |-> 1],
    [file |-> FALSE, plantId |-> 1],
    [file |-> TRUE,  plantId |-> 2] }

\* processAndUploadImage: sharp(...).toBuffer(), then s3Client.send(PutObjectCommand).
\* The module imports only S3Client (line 2), so as written the construction of the
\* command at line 44 already rejects; "ok" is the outcome of the module with the
\* import in place.  Either way a rejection is an outcome of the upload step.
processAndUploadImage(store, key, o) == IF o = "ok" THEN store \cup {key} ELSE store

PlantStageStart(r) ==
  /\ Idle(r)
  /\ \E in \in PlantStageInputs :
       req' = [req EXCEPT ![r] =
                 [@ EXCEPT !.kind = "plantStage", !.variant = "p000", !.file = in.file,
                           !.status = TRUE, !.plantId = in.plantId, !.userId = 1,
                           !.pc = "checkPlant", !.dbTried = TRUE]]
  /\ UNCHANGED <<blobs, rows, checkedOut, nextUuid, nextId, raw, agg, fetched, response, naming>>

\* SELECT id FROM plants WHERE id = ? AND user_id = ?
PlantStageCheckPlant(r) ==
  /\ req[r].kind = "plantStage" /\ req[r].pc = "checkPlant"
  /\ \E o \in Outcomes :
       req' = [req EXCEPT ![r] =
                 IF o = "fail" THEN RespondError(@, 500, "Server error")
                 ELSE IF SelectPlant(req[r].plantId) = {}
                 THEN Respond(@, 404, "Plant not found or unauthorized")
                 ELSE [@ EXCEPT !.pc = "getConn"]]
  /\ UNCHANGED <<blobs, rows, checkedOut, nextUuid, nextId, raw, agg, fetched, response, naming>>

\* const connection = await pool.getConnection();
PlantStageGetConn(r) ==
  /\ req[r].kind = "plantStage" /\ req[r].pc = "getConn"
  /\ checkedOut < connectionLimit
  /\ \E o \in Outcomes :
       IF o = "ok"
       THEN /\ checkedOut < connectionLimit
            /\ checkedOut' = checkedOut + 1
            /\ req' = [req EXCEPT ![r] = [@ EXCEPT !.pc = "begin", !.conn = TRUE]]
       ELSE /\ req' = [req EXCEPT ![r] = RespondError(@, 500, "Server error")]
            /\ UNCHANGED checkedOut
  /\ UNCHANGED <<blobs, rows, nextUuid, nextId, raw, agg, fetched, response, naming>>

\* await connection.beginTransaction(): outside the inner try, so a rejection goes
\* straight to the outer catch: no rollback, no release
PlantStageBegin(r) ==
  /\ req[r].kind = "plantStage" /\ req[r].pc = "begin"
  /\ \E o \in Outcomes :
       req' = [req EXCEPT ![r] =
                 IF o = "ok" THEN [@ EXCEPT !.pc = "insert", !.writeTried = TRUE]
                 ELSE RespondError([@ EXCEPT !.txFailed = TRUE], 500, "Server error")]
  /\ UNCHANGED <<blobs, rows, checkedOut, nextUuid, nextId, raw, agg, fetched, response, naming>>

\* INSERT INTO plant_stages (plant_id, status, date) VALUES (?, ?, ?); then, with a
\* file, processAndUploadImage is called (the key is generated, the upload awaited)
PlantStageInsert(r) ==
  /\ req[r].kind = "plantStage" /\ req[r].pc = "insert"
  /\ \E o \in Outcomes :
       IF o = "ok"
       THEN /\ req' = [req EXCEPT ![r] =
                 [@ EXCEPT !.pc = IF req[r].file THEN "upload" ELSE "commit",
                           !.rowId = nextId,
                           !.key = IF req[r].file THEN nextUuid ELSE 0,
                           !.putTried = req[r].file,
                           !.tx = @ \cup {Row("plant_stages", nextId, 1, req[r].plantId,
                                              0, "body")}]]
            /\ nextId' = nextId + 1
            /\ nextUuid' = IF req[r].file THEN nextUuid + 1 ELSE nextUuid
       ELSE /\ req' = [req EXCEPT ![r] = [@ EXCEPT !.pc = "rollback", !.txFailed = TRUE]]
            /\ UNCHANGED <<nextId, nextUuid>>
  /\ UNCHANGED <<blobs, rows, checkedOut, raw, agg, fetched, response, naming>>

\* const { fileKey, url } = await processAndUploadImage(req.file, req.userId);
PlantStageUpload(r) ==
  /\ req[r].kind = "plantStage" /\ req[r].pc = "upload"
  /\ \E o \in Outcomes :
       /\ blobs' = processAndUploadImage(blobs, Key(req[r].userId, 0, req[r].key), o)
       /\ req' = [req EXCEPT ![r] =
                 IF o = "ok" THEN [@ EXCEPT !.pc = "insertImage", !.putOk = TRUE]
                 ELSE [@ EXCEPT !.pc = "rollback"]]
  /\ UNCHANGED <<rows, checkedOut, nextUuid, nextId, raw, agg, fetched, response, naming>>

\* INSERT INTO plant_stage_images (stage_id, file_key) VALUES (?, ?)
PlantStageInsertImage(r) ==
  /\ req[r].kind = "plantStage" /\ req[r].pc = "insertImage"
  /\ \E o \in Outcomes :
       req' = [req EXCEPT ![r] =
                 IF o = "ok"
                 THEN [@ EXCEPT !.pc = "commit",
                                !.tx = @ \cup {Row("plant_stage_images", req[r].rowId, 1,
                                                   req[r].plantId, req[r].key, "none")}]
                 ELSE [@ EXCEPT !.pc = "rollback", !.txFailed = TRUE]]
  /\ UNCHANGED <<blobs, rows, checkedOut, nextUuid, nextId, raw, agg, fetched, response, naming>>

\* await connection.commit(); res.json(...); finally connection.release()
PlantStageCommit(r) ==
  /\ req[r].kind = "plantStage" /\ req[r].pc = "commit"
  /\ \E o \in Outcomes :
       IF o = "ok"
       THEN /\ rows' = CommitRows(rows, req[r].tx)
            /\ checkedOut' = release(checkedOut)
            /\ req' = [req EXCEPT ![r] =
                 Respond([@ EXCEPT !.tx = {}, !.conn = FALSE, !.committed = TRUE],
                         200, "none")]
       ELSE /\ req' = [req EXCEPT ![r] = [@ EXCEPT !.pc = "rollback", !.txFailed = TRUE]]
            /\ UNCHANGED <<rows, checkedOut>>
  /\ UNCHANGED <<blobs, nextUuid, nextId, raw, agg, fetched, response, naming>>

\* catch: await connection.rollback(); throw error; finally connection.release(); 500
PlantStageRollback(r) ==
  /\ req[r].kind = "plantStage" /\ req[r].pc = "rollback"
  /\ \E o \in Outcomes :
       /\ rows' = RollbackRows(rows, req[r].tx)
       /\ checkedOut' = release(checkedOut)
       /\ req' = [req EXCEPT ![r] =
            RespondError([@ EXCEPT !.tx = {}, !.conn = FALSE], 500, "Server error")]
  /\ UNCHANGED <<blobs, nextUuid, nextId, raw, agg, fetched, response, naming>>

\* ------------------------------------------------ GET /api/plants: row mapping
\* A sub-document column arrives as null/undefined ("absent"), as an already parsed
\* value ("obj"), or as a string: JSON text of a value ("str"), the JSON text null
\* ("strnull"), or text that is not JSON ("bad").
Enc == {"absent", "obj", "str", "strnull", "bad"}
Col(enc, val) == [enc |-> enc, val |-> val]

\* a JavaScript value of the aggregate: null/undefined, or a value
JsNull(dummy) == [null |-> TRUE, val |-> dummy]
JsVal(v) == [null |-> FALSE, val |-> v]

\* the documented empty defaults
EmptyObject == "{}"
EmptyList == <<>>
WarningDefault == "{cold_tolerance: null, heat_tolerance: null}"

\* JSON.parse(col) throws a SyntaxError
ParseThrows(col) == col.enc = "bad"

\* typeof col === 'string' ? JSON.parse(col) : col
ParseOrPass(col, dummy) ==
  IF col.enc \in {"absent", "strnull", "bad"} THEN JsNull(dummy) ELSE JsVal(col.val)

\* typeof col === 'string' ? JSON.parse(col) : (col || dflt)
ParseOrDefault(col, dflt, dummy) ==
  IF col.enc = "absent" THEN JsVal(dflt) ELSE ParseOrPass(col, dummy)

\* a mapping that reads photo.url, a field the result set does not carry
normalizedPhoto_Url(photo) ==
  [id |-> photo.photo_id, filename |-> 0, date_taken |-> photo.date_taken]

\* photos.map(photo => ({id: photo.photo_id, filename: photo.filename, ...}))
normalizedPhoto(photo) ==
  [id |-> photo.photo_id, filename |-> photo.filename, date_taken |-> photo.date_taken]

normalizedPhotos(photos) == [i \in 1..Len(photos) |-> normalizedPhoto(photos[i])]

\* a date column arrives as null ("null"), as a Date object of the driver ("dateobj"),
\* or as text: a calendar date ("ymd"), a timestamp ("iso"), or no date ("garbled");
\* in the JSON of the response a Date object is its toJSON() timestamp
DateReps == {"null", "dateobj", "ymd", "iso", "garbled"}

\* new Date(col).toISOString() throws a RangeError on an Invalid Date
FormatThrows(col) == col = "garbled"

\* col ? new Date(col).toISOString().slice(0, 10) : null
formattedDate(col) == IF col = "null" THEN "null" ELSE "ymd"

\* the column copied into the aggregate, as res.json serialises it
PassedDate(col) == IF col = "dateobj" THEN "iso" ELSE col

\* the variants of the mapping: "index" (src/index.js), "p009" (adds projections and
\* the formatted date_planted), "p008" (photos passed through as they are)
AssembleVariants == {"index", "p009", "p008"}

SubDocs == {"variety", "stage", "location", "photos", "notes", "warning", "projections"}

\* the sub-document columns the variant reads
ColumnsRead(variant) ==
  {"plant", "variety", "stage", "location", "photos", "notes", "warning"}
    \cup (IF variant = "p009" THEN {"projections"} ELSE {})

\* the try block throws: a JSON.parse throws, or photos.map is applied to null
TryThrows(variant, row) ==
  \/ \E c \in ColumnsRead(variant) : ParseThrows(row[c])
  \/ variant = "p009" /\ FormatThrows(row.date_planted)
  \/ variant # "p008" /\ ParseOrDefault(row.photos, EmptyList, EmptyList).null

\* the object returned from the try block
TryResult(variant, row) ==
  LET photos == ParseOrDefault(row.photos, EmptyList, EmptyList)
  IN [threw |-> FALSE,
      plant_obj_id |-> row.plant_obj_id,
      plant |-> ParseOrPass(row.plant, EmptyObject),
      variety |-> ParseOrPass(row.variety, EmptyObject),
      stage |-> ParseOrPass(row.stage, EmptyObject),
      location |-> ParseOrPass(row.location, EmptyObject),
      photos |-> IF variant = "p008" \/ photos.null THEN photos
                 ELSE JsVal(normalizedPhotos(photos.val)),
      notes |-> ParseOrDefault(row.notes, EmptyList, EmptyList),
      warning |-> ParseOrDefault(row.warning, WarningDefault, EmptyObject),
      projections |-> IF variant = "p009"
                      THEN ParseOrDefault(row.projections, EmptyList, EmptyList)
                      ELSE JsNull(EmptyList),
      date_updated |-> PassedDate(row.date_updated),
      date_planted |-> IF variant = "p009" THEN formattedDate(row.date_planted)
                       ELSE PassedDate(row.date_planted)]

\* the object returned from the catch block; in "p009" the catch block reads
\* formattedDatePlanted, a const of the try block's scope: a ReferenceError, which
\* leaves the map callback
CatchResult(variant, row) ==
  [threw |-> variant = "p009",
   plant_obj_id |-> row.plant_obj_id,
   plant |-> JsVal(EmptyObject),
   variety |-> JsVal(EmptyObject),
   stage |-> JsVal(EmptyObject),
   location |-> JsVal(EmptyObject),
   photos |-> JsVal(EmptyList),
   notes |-> JsVal(EmptyList),
   warning |-> JsVal(WarningDefault),
   projections |-> IF variant = "p009" THEN JsVal(EmptyList) ELSE JsNull(EmptyList),
   date_updated |-> PassedDate(row.date_updated),
   date_planted |-> PassedDate(row.date_planted)]

\* results[0].map(plant => { try {...} catch (parseError) {...} }) for one row
AssembleRow(variant, row) ==
  IF TryThrows(variant, row) THEN CatchResult(variant, row) ELSE TryResult(variant, row)

\* the raw rows of the assembly check: every encoding of every sub-document
ObjCols == {Col(e, "A") : e \in Enc \ {"absent", "strnull", "bad"}}
             \cup {Col(e, EmptyObject) : e \in {"absent", "strnull", "bad"}}
WarnCols == ObjCols
SomePhotos == << [photo_id |-> 1, filename |-> 1, date_taken |-> "d1"] >>
PhotoCols == {Col(e, SomePhotos) : e \in {"obj", "str"}}
               \cup {Col(e, EmptyList) : e \in {"absent", "strnull", "bad"}}
ListCols == {Col(e, <<"n">>) : e \in {"obj", "str"}}
              \cup {Col(e, EmptyList) : e \in {"absent", "strnull", "bad"}}

RawRows ==
  [plant_obj_id : {1}, plant : {Col("obj", "A"), Col("str", "A")},
   variety : ObjCols, stage : ObjCols, location : ObjCols,
   photos : PhotoCols, notes : ListCols, warning : WarnCols, projections : ListCols,
   date_updated : {"ymd"}, date_planted : {"ymd"}]

\* a row with every sub-document absent
NoRow ==
  [plant_obj_id |-> 0, plant |-> Col("obj", "A"),
   variety |-> Col("absent", EmptyObject), stage |-> Col("absent", EmptyObject),
   location |-> Col("absent", EmptyObject), photos |-> Col("absent", EmptyList),
   notes |-> Col("absent", EmptyList), warning |-> Col("absent", EmptyObject),
   projections |-> Col("absent", EmptyList),
   date_updated |-> "null", date_planted |-> "null"]

\* one row goes through the mapping of one variant
Assemble ==
  /\ raw.variant = "none"
  /\ \E v \in AssembleVariants, row \in RawRows :
    /\ raw' = [variant |-> v, row |-> row]
    /\ agg' = AssembleRow(v, row)
    /\ UNCHANGED <<blobs, rows, checkedOut, nextUuid, nextId, req, fetched, response, naming>>

\* the rows of the date check: every representation of the two date columns, in a
\* row whose photos column is well formed or is not JSON
DatedRows ==
  {[NoRow EXCEPT !.plant_obj_id = 1, !.date_planted = p, !.date_updated = u,
                 !.photos = Col(e, IF e = "obj" THEN SomePhotos ELSE EmptyList)] :
     p \in DateReps, u \in DateReps, e \in {"obj", "bad"}}

\* one dated row goes through the mapping of one variant
AssembleDated ==
  /\ raw.variant = "none"
  /\ \E v \in AssembleVariants, row \in DatedRows :
    /\ raw' = [variant |-> v, row |-> row]
    /\ agg' = AssembleRow(v, row)
    /\ UNCHANGED <<blobs, rows, checkedOut, nextUuid, nextId, req, fetched, response, naming>>

\* ----------------------------------------------------- POST /api/photos/add
\* if (!req.file || !userId || !plantObjId)
PhotoMissingFields(file, userId, plantObjId) == ~file \/ userId = 0 \/ plantObjId = 0

\* every image of these requests carries an EXIF capture date
PhotoAddInputs ==
  { [file |-> TRUE,  userId |-> 1, plantId |-> 1, dateTaken |-> "none", meta |-> "exif"],
    [file |-> TRUE,  userId |-> 1, plantId |-> 1, dateTaken |-> "d1", meta |-> "exif"],
    [file |-> TRUE,  userId |-> 1, plantId |-> 1, dateTaken |-> "invalid", meta |-> "exif"],
    [file |-> FALSE, userId |-> 1, plantId |-> 1, dateTaken |-> "d1", meta |-> "exif"],
    [file |-> TRUE,  userId |-> 0, plantId |-> 1, dateTaken |-> "d1", meta |-> "exif"],
    [file |-> TRUE,  userId |-> 1, plantId |-> 0, dateTaken |-> "d1", meta |-> "exif"] }

\* getFileKey(userId, plantObjId, filename): the key of the blob of a stored filename
getFileKey(userId, plantObjId, filename) == Key(userId, plantObjId, filename)

\* uploadFile(file, userId, plantObjId): puts the blob under a fresh key
uploadFile(store, userId, plantObjId, filename, o) ==
  IF o = "ok" THEN store \cup {getFileKey(userId, plantObjId, filename)} ELSE store

\* a handler that goes on to AddPhoto whatever uploadFile did
PhotoAfterPut_Always(o) == "addPhoto"

\* what to do once uploadFile settled
PhotoAfterPut(o) == IF o = "ok" THEN "addPhoto" ELSE "fail500"

\* let photoDate = dateTaken ? new Date(dateTaken) : new Date()
photoDate(dateTaken) == IF dateTaken = "none" THEN "now" ELSE dateTaken

\* photoDate.toISOString() throws a RangeError on an Invalid Date
ToISOStringThrows(date) == date = "invalid"

\* CALL AddPhoto(userId, plantObjId, filename, photoDate, stageId): the stored row
AddPhoto(id, userId, plantObjId, filename, date) ==
  Row("photo", id, userId, plantObjId, filename, date)

PhotoAddStart(r) ==
  /\ Idle(r)
  /\ \E in \in PhotoAddInputs :
       LET q == [req[r] EXCEPT !.kind = "photoAdd", !.variant = "index",
                               !.file = in.file, !.userId = in.userId,
                               !.plantId = in.plantId, !.dateTaken = in.dateTaken,
                               !.meta = in.meta]
           missing == PhotoMissingFields(in.file, in.userId, in.plantId)
       IN /\ req' = [req EXCEPT ![r] =
                       IF missing THEN Respond(q, 400, "Missing required fields")
                       ELSE [q EXCEPT !.pc = "put", !.key = nextUuid, !.putTried = TRUE]]
          /\ nextUuid' = IF missing THEN nextUuid ELSE nextUuid + 1
  /\ UNCHANGED <<blobs, rows, checkedOut, nextId, raw, agg, fetched, response, naming>>

\* const filename = await uploadFile(...); photoDate; pool.execute('CALL AddPhoto(...)')
PhotoAddPut(r) ==
  /\ req[r].kind = "photoAdd" /\ req[r].pc = "put"
  /\ \E o \in Outcomes :
       /\ blobs' = uploadFile(blobs, req[r].userId, req[r].plantId, req[r].key, o)
       /\ req' = [req EXCEPT ![r] =
                 IF PhotoAfterPut(o) = "addPhoto"
                 THEN [@ EXCEPT !.pc = "addPhoto", !.putOk = (o = "ok"),
                                !.date = photoDate(req[r].dateTaken),
                                !.dbTried = TRUE, !.writeTried = TRUE]
                 ELSE RespondError(@, 500, "Error adding photo")]
  /\ UNCHANGED <<rows, checkedOut, nextUuid, nextId, raw, agg, fetched, response, naming>>

\* the AddPhoto call settles; the response is built: JSON.parse(photoData.stage) and
\* photoDate.toISOString() can throw after the row is stored
PhotoAddSP(r) ==
  /\ req[r].kind = "photoAdd" /\ req[r].pc = "addPhoto"
  /\ \E o \in Outcomes, parsed \in BOOLEAN :
       IF o = "ok"
       THEN /\ rows' = rows \cup {AddPhoto(nextId, req[r].userId, req[r].plantId,
                                           req[r].key, req[r].date)}
            /\ nextId' = nextId + 1
            /\ req' = [req EXCEPT ![r] =
                 IF parsed /\ ~ToISOStringThrows(req[r].date)
                 THEN Respond([@ EXCEPT !.rowId = nextId, !.committed = TRUE],
                              200, "none")
                 ELSE RespondError([@ EXCEPT !.rowId = nextId, !.committed = TRUE],
                                   500, "Error adding photo")]
       ELSE /\ req' = [req EXCEPT ![r] = RespondError(@, 500, "Error adding photo")]
            /\ UNCHANGED <<rows, nextId>>
  /\ UNCHANGED <<blobs, checkedOut, nextUuid, raw, agg, fetched, response, naming>>

\* ------------------------------------- POST /api/photos/add, earlier version
\* The handler of part_008: it builds the key and puts the blob itself (the code of
\* uploadFile of part_001 inlined), resolves the date with getImageDate, and hands
\* the URL of the blob to AddPhoto.
\* what the image carries as capture-time metadata: a DateTimeOriginal description
\* that is a date ("exif"), one that is no date ("garbled"), none ("none"), or bytes
\* the reader throws on ("unreadable")
Buffers == {"exif", "garbled", "none", "unreadable"}

\* ExifReader.load(buffer) throws
LoadThrows(buffer) == buffer = "unreadable"

\* exifData?.DateTimeOriginal?.description is truthy
HasDescription(buffer) == buffer \in {"exif", "garbled"}

\* new Date(text): the date the text denotes, or an Invalid Date; it never throws
NewDate(text) == IF text \in {"garbled", "invalid"} THEN "invalid" ELSE text

\* getImageDate(buffer): the try block returns new Date(description) or new Date();
\* the catch block returns new Date()
getImageDate(buffer) ==
  IF LoadThrows(buffer) THEN [threw |-> FALSE, date |-> "now"]
  ELSE IF HasDescription(buffer) THEN [threw |-> FALSE, date |-> NewDate(buffer)]
  ELSE [threw |-> FALSE, date |-> "now"]

\* an image reference is a number: below UrlBase the bare name of the blob, from
\* UrlBase on the URL https://<bucket>.nyc3.digitaloceanspaces.com/<key> of the blob
UrlBase == 1000
IsUrl(ref) == ref >= UrlBase

\* a key made without the uuid
fileKey_NoUuid(userId, plantObjId, uuid) == Key(userId, plantObjId, plantObjId)

\* `plants/${userId}/${plantObjId}/${uuidv4()}-${originalname sanitized}`; the model's
\* uploads all carry the same original file name, so the name part is the uuid
fileKey(userId, plantObjId, uuid) == Key(userId, plantObjId, uuid)

\* `https://${bucket}.nyc3.digitaloceanspaces.com/${fileKey}`
imageUrl(key) == UrlBase + key.name

\* fileUrl.split('.com/')[1]: the key inside a URL
KeyOfUrl(userId, plantObjId, url) == Key(userId, plantObjId, url - UrlBase)

\* if (dateTaken) photoDate = new Date(dateTaken)
\* else try { photoDate = await getImageDate(buffer) } catch { photoDate = new Date() }
photoDate008(dateTaken, buffer) ==
  IF dateTaken # "none" THEN NewDate(dateTaken)
  ELSE IF getImageDate(buffer).threw THEN "now"
  ELSE getImageDate(buffer).date

Photo008Inputs ==
  { [file |-> TRUE, userId |-> 1, plantId |-> 1, dateTaken |-> d, meta |-> b] :
      d \in {"none", "d1", "invalid"}, b \in Buffers }
  \cup
  { [file |-> FALSE, userId |-> 1, plantId |-> 1, dateTaken |-> "d1", meta |-> "none"],
    [file |-> TRUE,  userId |-> 0, plantId |-> 1, dateTaken |-> "d1", meta |-> "exif"],
    [file |-> TRUE,  userId |-> 1, plantId |-> 0, dateTaken |-> "d1", meta |-> "exif"] }

\* validation; the key is built and the put issued
Photo008Start(r) ==
  /\ Idle(r)
  /\ \E in \in Photo008Inputs :
       LET q == [req[r] EXCEPT !.kind = "photoAdd008", !.variant = "p008",
                               !.file = in.file, !.userId = in.userId,
                               !.plantId = in.plantId, !.dateTaken = in.dateTaken,
                               !.meta = in.meta]
           missing == PhotoMissingFields(in.file, in.userId, in.plantId)
       IN /\ req' = [req EXCEPT ![r] =
                       IF missing THEN Respond(q, 400, "Missing required fields")
                       ELSE [q EXCEPT !.pc = "put", !.key = nextUuid, !.putTried = TRUE]]
          /\ nextUuid' = IF missing THEN nextUuid ELSE nextUuid + 1
  /\ UNCHANGED <<blobs, rows, checkedOut, nextId, raw, agg, fetched, response, naming>>

\* the put settles; imageUrl; the date is resolved; photoDate.toISOString() in the log
\* call throws on an Invalid Date; otherwise AddPhoto is issued
Photo008Put(r) ==
  /\ req[r].kind = "photoAdd008" /\ req[r].pc = "put"
  /\ \E o \in Outcomes :
       LET key == fileKey(req[r].userId, req[r].plantId, req[r].key)
           date == photoDate008(req[r].dateTaken, req[r].meta)
       IN IF o = "fail"
          THEN /\ req' = [req EXCEPT ![r] = RespondError(@, 500, "Error adding photo")]
               /\ UNCHANGED blobs
          ELSE /\ blobs' = blobs \cup {key}
               /\ req' = [req EXCEPT ![r] =
                    IF ToISOStringThrows(date)
                    THEN RespondError([@ EXCEPT !.putOk = TRUE, !.date = date,
                                                !.dated = (req[r].dateTaken = "none")],
                                      500, "Error adding photo")
                    ELSE [@ EXCEPT !.pc = "addPhoto", !.putOk = TRUE, !.date = date,
                                   !.dated = (req[r].dateTaken = "none"),
                                   !.image = imageUrl(key),
                                   !.dbTried = TRUE, !.writeTried = TRUE]]
  /\ UNCHANGED <<rows, checkedOut, nextUuid, nextId, raw, agg, fetched, response, naming>>

\* the AddPhoto call settles; res.json(response)
Photo008SP(r) ==
  /\ req[r].kind = "photoAdd008" /\ req[r].pc = "addPhoto"
  /\ \E o \in Outcomes :
       IF o = "ok"
       THEN /\ rows' = rows \cup {AddPhoto(nextId, req[r].userId, req[r].plantId,
                                           req[r].image, req[r].date)}
            /\ nextId' = nextId + 1
            /\ req' = [req EXCEPT ![r] =
                 Respond([@ EXCEPT !.rowId = nextId, !.committed = TRUE], 200, "none")]
       ELSE /\ req' = [req EXCEPT ![r] = RespondError(@, 500, "Error adding photo")]
            /\ UNCHANGED <<rows, nextId>>
  /\ UNCHANGED <<blobs, checkedOut, nextUuid, raw, agg, fetched, response, naming>>

\* ------------------------- DELETE /api/photos/:userId/:plantObjId/:photoId
\* the variants: "index" (src/index.js), "p009", and "p008" (no storage delete)
DeleteVariants == {"index", "p009", "p008"}

\* CALL DeletePhoto(userId, plantObjId, photoId): the rows it removes
DeletePhotoMatch(store, userId, plantObjId, photoId) ==
  {x \in store : x.tbl = "photo" /\ x.id = photoId /\ x.user = userId
                 /\ x.plant = plantObjId}

\* a DeletePhoto that returns the row but leaves it in the table
DeletePhoto_Keep(store, userId, plantObjId, photoId) == store

\* the table after CALL DeletePhoto(userId, plantObjId, photoId); the procedure is one
\* statement of the database: two calls for the same row do not both find it
DeletePhoto(store, userId, plantObjId, photoId) ==
  store \ DeletePhotoMatch(store, userId, plantObjId, photoId)

\* a handler without the not-found test
PhotoNotFound_Never(variant, deleted_photo_id, filename) == FALSE

\* the handler's not-found test on the first row of the result (id 0: no row returned)
\*   index: !deletedPhoto?.deleted_photo_id || !deletedPhoto?.filename
\*   p009, p008: !deletedPhoto?.deleted_photo_id
PhotoNotFound(variant, deleted_photo_id, filename) ==
  IF variant = "index" THEN deleted_photo_id = 0 \/ filename = 0
  ELSE deleted_photo_id = 0

\* no handler goes on to deleteFile
CallsDeleteFile_Never(variant) == FALSE

\* whether the handler goes on to deleteFile after the database delete
CallsDeleteFile(variant) == variant # "p008"

\* deleteFile(userId, plantObjId, filename): removes the blob; a missing blob is no error
deleteFile(store, userId, plantObjId, filename) ==
  store \ {getFileKey(userId, plantObjId, filename)}

PhotoDeleteStart(r) ==
  /\ Idle(r)
  /\ \E v \in DeleteVariants, u \in {1, 2}, id \in 0..(nextId - 1) :
       req' = [req EXCEPT ![r] =
                 [@ EXCEPT !.kind = "photoDelete", !.variant = v, !.userId = u,
                           !.plantId = 1, !.photoId = id, !.pc = "deleteSP",
                           !.dbTried = TRUE, !.writeTried = TRUE]]
  /\ UNCHANGED <<blobs, rows, checkedOut, nextUuid, nextId, raw, agg, fetched, response, naming>>

\* the DeletePhoto call settles; 404, or success ("p008"), or deleteFile is called
PhotoDeleteSP(r) ==
  /\ req[r].kind = "photoDelete" /\ req[r].pc = "deleteSP"
  /\ \E o \in Outcomes :
       IF o = "fail"
       THEN /\ req' = [req EXCEPT ![r] = RespondError(@, 500, "Failed to delete photo")]
            /\ UNCHANGED rows
       ELSE LET m == DeletePhotoMatch(rows, req[r].userId, req[r].plantId, req[r].photoId)
                id == IF m = {} THEN 0 ELSE req[r].photoId
                fn == IF m = {} THEN 0 ELSE (CHOOSE x \in m : TRUE).image
                q == [req[r] EXCEPT !.dbDeleted = (m # {}), !.noMatch = (m = {}),
                                   !.delKey = fn]
            IN /\ rows' = DeletePhoto(rows, req[r].userId, req[r].plantId, req[r].photoId)
               /\ req' = [req EXCEPT ![r] =
                    IF PhotoNotFound(req[r].variant, id, fn)
                    THEN Respond(q, 404, "Photo not found")
                    ELSE IF CallsDeleteFile(req[r].variant)
                    THEN [q EXCEPT !.pc = "deleteFile", !.delTried = TRUE]
                    ELSE Respond(q, 200, "Photo deleted successfully")]
  /\ UNCHANGED <<blobs, checkedOut, nextUuid, nextId, raw, agg, fetched, response, naming>>

\* await deleteFile(userId, plantObjId, deletedPhoto.filename); res.json(success)
PhotoDeleteFile(r) ==
  /\ req[r].kind = "photoDelete" /\ req[r].pc = "deleteFile"
  /\ \E o \in Outcomes :
       IF o = "ok"
       THEN /\ blobs' = deleteFile(blobs, req[r].userId, req[r].plantId, req[r].delKey)
            /\ req' = [req EXCEPT ![r] = Respond(@, 200, "Photo deleted successfully")]
       ELSE /\ req' = [req EXCEPT ![r] = RespondError(@, 500, "Failed to delete photo")]
            /\ UNCHANGED blobs
  /\ UNCHANGED <<rows, checkedOut, nextUuid, nextId, raw, agg, fetched, response, naming>>

\* ------------------------------- DELETE /api/notes/:userId/:plantObjId/:noteId
NoteVariants == {"index", "p009"}

\* CALL DeleteNote(userId, plantObjId, noteId): the rows it removes; the result
\* header of the call carries their number as affectedRows
DeleteNoteMatch(store, userId, plantObjId, noteId) ==
  {x \in store : x.tbl = "note" /\ x.id = noteId /\ x.user = userId
                 /\ x.plant = plantObjId}

\* a handler without the not-found test
NoteNotFound_Never(affectedRows) == FALSE

\* const affectedRows = results.affectedRows || 0; if (affectedRows === 0)
NoteNotFound(affectedRows) == affectedRows = 0

NoteDeleteStart(r) ==
  /\ Idle(r)
  /\ \E v \in NoteVariants, u \in {1, 2}, id \in 0..(nextId - 1) :
       req' = [req EXCEPT ![r] =
                 [@ EXCEPT !.kind = "noteDelete", !.variant = v, !.userId = u,
                           !.plantId = 1, !.noteId = id, !.pc = "deleteNote",
                           !.dbTried = TRUE, !.writeTried = TRUE]]
  /\ UNCHANGED <<blobs, rows, checkedOut, nextUuid, nextId, raw, agg, fetched, response, naming>>

\* the DeleteNote call settles: 500, 404 or success
NoteDeleteSP(r) ==
  /\ req[r].kind = "noteDelete" /\ req[r].pc = "deleteNote"
  /\ \E o \in Outcomes :
       IF o = "fail"
       THEN /\ req' = [req EXCEPT ![r] = RespondError(@, 500, "Error deleting note")]
            /\ UNCHANGED rows
       ELSE LET m == DeleteNoteMatch(rows, req[r].userId, req[r].plantId, req[r].noteId)
                q == [req[r] EXCEPT !.dbDeleted = (m # {}), !.noMatch = (m = {})]
            IN /\ rows' = rows \ m
               /\ req' = [req EXCEPT ![r] =
                    IF NoteNotFound(Cardinality(m))
                    THEN Respond(q, 404, "Note not found or not authorized to delete")
                    ELSE Respond(q, 200, "Note deleted successfully")]
  /\ UNCHANGED <<blobs, checkedOut, nextUuid, nextId, raw, agg, fetched, response, naming>>

\* --------------------------------- PUT /api/photos/:userId/:plantObjId/:photoId
\* a handler that requires dateTaken only
EditMissingFields_DateOnly(dateTaken, stageId) == dateTaken = "none"

\* if (!dateTaken || !stageId)
EditMissingFields(dateTaken, stageId) == dateTaken = "none" \/ stageId = 0

\* CALL EditPhoto(userId, plantObjId, photoId, dateTaken, stageId): the rows it updates
EditPhotoMatch(store, userId, plantObjId, photoId) ==
  {x \in store : x.tbl = "photo" /\ x.id = photoId /\ x.user = userId
                 /\ x.plant = plantObjId}

\* the store after EditPhoto
EditPhoto(store, userId, plantObjId, photoId, dateTaken, stageId) ==
  LET m == EditPhotoMatch(store, userId, plantObjId, photoId)
  IN  (store \ m) \cup {[x EXCEPT !.date = dateTaken, !.stage = stageId] : x \in m}

\* if (!updatedPhoto?.updated_photo_id) (id 0: no row returned)
EditNotFound(updated_photo_id) == updated_photo_id = 0

PhotoEditStart(r) ==
  /\ Idle(r)
  /\ \E u \in {1, 2}, id \in 0..(nextId - 1), d \in {"none", "d2"}, st \in {0, 2} :
       req' = [req EXCEPT ![r] =
                 LET q == [@ EXCEPT !.kind = "photoEdit", !.variant = "p009",
                                    !.userId = u, !.plantId = 1, !.photoId = id,
                                    !.dateTaken = d, !.stageId = st]
                 IN  IF EditMissingFields(d, st)
                     THEN Respond(q, 400, "Date taken and stage ID are required")
                     ELSE [q EXCEPT !.pc = "editSP", !.dbTried = TRUE,
                                    !.writeTried = TRUE]]
  /\ UNCHANGED <<blobs, rows, checkedOut, nextUuid, nextId, raw, agg, fetched, response, naming>>

\* the EditPhoto call settles: 500, 404 or success
PhotoEditSP(r) ==
  /\ req[r].kind = "photoEdit" /\ req[r].pc = "editSP"
  /\ \E o \in Outcomes :
       IF o = "fail"
       THEN /\ req' = [req EXCEPT ![r] = RespondError(@, 500, "Failed to update photo")]
            /\ UNCHANGED rows
       ELSE LET m == EditPhotoMatch(rows, req[r].userId, req[r].plantId, req[r].photoId)
                id == IF m = {} THEN 0 ELSE req[r].photoId
                q == [req[r] EXCEPT !.dbUpdated = (m # {}), !.noMatch = (m = {})]
            IN /\ rows' = EditPhoto(rows, req[r].userId, req[r].plantId, req[r].photoId,
                                    req[r].dateTaken, req[r].stageId)
               /\ req' = [req EXCEPT ![r] =
                    IF EditNotFound(id)
                    THEN Respond(q, 404, "Photo not found or not authorized to edit")
                    ELSE Respond(q, 200, "Photo updated successfully")]
  /\ UNCHANGED <<blobs, checkedOut, nextUuid, nextId, raw, agg, fetched, response, naming>>

\* ------------------------------------------------ GET /api/plants: handler
RECURSIVE PhotoSeq(_)
\* the photos of a set of photo rows as the JSON array of the result set, by id
PhotoSeq(ps) ==
  IF ps = {} THEN <<>>
  ELSE LET x == CHOOSE y \in ps : \A z \in ps : y.id <= z.id
       IN <<[photo_id |-> x.id, filename |-> x.image, date_taken |-> x.date]>>
            \o PhotoSeq(ps \ {x})

\* CALL GetPlantsWithStagesAndLocations(...): one row per plant object, the photos
\* column aggregated from the photo rows of the plant object
GetPlantsWithStagesAndLocations(store, enc) ==
  << [plant_obj_id |-> 1, plant |-> Col("obj", "A"),
      variety |-> Col("obj", "A"), stage |-> Col("obj", "A"),
      location |-> Col("obj", "A"),
      photos |-> Col(enc, PhotoSeq({x \in store : x.tbl = "photo" /\ x.plant = 1})),
      notes |-> Col("obj", <<"n">>), warning |-> Col("obj", "A"),
      projections |-> Col("obj", <<"n">>),
      date_updated |-> "ymd", date_planted |-> "ymd"] >>

\* results[0].map(...) over the rows of the result set
AssembleMany(variant, results) ==
  [i \in 1..Len(results) |-> AssembleRow(variant, results[i])]

\* the answer of the handler for a result set: res.json(plants), or, when the map
\* callback throws, the outer catch: res.status(500).json({message, error})
GetPlantsResponse(variant, results) ==
  LET plants == AssembleMany(variant, results)
  IN IF \E i \in 1..Len(plants) : plants[i].threw
     THEN [sent |-> TRUE, status |-> 500, body |-> <<>>]
     ELSE [sent |-> TRUE, status |-> 200, body |-> plants]

NoResponse == [sent |-> FALSE, status |-> 0, body |-> <<>>]

\* the rows of the listing check: plant objects whose photos column is well formed,
\* is the JSON text null, or is not JSON
ListedRow(id, enc) ==
  [NoRow EXCEPT !.plant_obj_id = id,
                !.photos = Col(enc, IF enc = "obj" THEN SomePhotos ELSE EmptyList)]

ListedRows == {ListedRow(id, enc) : id \in 1..3, enc \in {"obj", "strnull", "bad"}}

RECURSIVE SeqsUpTo(_, _)
\* the sequences over S of length at most n
SeqsUpTo(S, n) ==
  IF n = 0 THEN {<<>>}
  ELSE LET shorter == SeqsUpTo(S, n - 1)
       IN shorter \cup {Append(s, x) : s \in {t \in shorter : Len(t) = n - 1}, x \in S}

\* one result set goes through the handler of one variant
ListPlants ==
  /\ ~response.sent
  /\ \E v \in AssembleVariants, rs \in SeqsUpTo(ListedRows, MaxRows) :
    /\ fetched' = [variant |-> v, rows |-> rs]
    /\ response' = GetPlantsResponse(v, rs)
    /\ UNCHANGED <<blobs, rows, checkedOut, nextUuid, nextId, req, raw, agg, naming>>

GetPlantsStart(r) ==
  /\ Idle(r)
  /\ \E v \in {"index", "p009"} :
       req' = [req EXCEPT ![r] =
                 [@ EXCEPT !.kind = "getPlants", !.variant = v, !.pc = "callSP",
                           !.dbTried = TRUE]]
  /\ UNCHANGED <<blobs, rows, checkedOut, nextUuid, nextId, raw, agg, fetched, response, naming>>

\* the call settles; the rows are mapped; res.json(plants), or 500 from the outer catch
GetPlantsSP(r) ==
  /\ req[r].kind = "getPlants" /\ req[r].pc = "callSP"
  /\ \E o \in Outcomes, enc \in {"obj", "str"} :
       LET plants == AssembleMany(req[r].variant,
                                  GetPlantsWithStagesAndLocations(rows, enc))
           q == [req[r] EXCEPT
                   !.seenAdds = {a \in Req : req[a].kind = "photoAdd" /\ req[a].resp = 200},
                   !.seenDels = {d \in Req : req[d].kind = "photoDelete"
                                             /\ req[d].dbDeleted}]
       IN req' = [req EXCEPT ![r] =
                    IF o = "fail" \/ \E i \in 1..Len(plants) : plants[i].threw
                    THEN RespondError(@, 500, "Error fetching plants")
                    ELSE Respond([q EXCEPT !.body = plants], 200, "none")]
  /\ UNCHANGED <<blobs, rows, checkedOut, nextUuid, nextId, raw, agg, fetched, response, naming>>

\* ------------------------------------------------- object keys and URLs
\* Text is a sequence of characters: "a" is a letter, "1" a digit, " " a whitespace
\* character; ".com" is the four characters .com and "plants", "https:", "bucket"
\* and "nyc3.digitaloceanspaces" are the literal texts, written as one element.
MaxLen == 3

\* characters of file.originalname, and of the userId and plantObjId form fields
NameChars == {"a", ".", "-", " ", "/"}
IdChars == {"1", ".com"}

\* the class [a-zA-Z0-9.-], and the class \s
AllowedChars == {"a", "1", ".", "-", ".com", "u"}
Whitespace == {" "}

Texts(chars, n) == UNION {[1..k -> chars] : k \in 0..n}

\* uuidv4(): hexadecimal digits and dashes
Uuid == <<"u">>

\* originalname.replace(/[^a-zA-Z0-9.-]/g, '-')
replaceDisallowed(s) == [i \in 1..Len(s) |-> IF s[i] \in AllowedChars THEN s[i] ELSE "-"]

\* originalname.replace(/\s+/g, '-'): every run of whitespace becomes one dash
RECURSIVE replaceSpaces(_)
replaceSpaces(s) ==
  IF s = <<>> THEN <<>>
  ELSE IF Head(s) \in Whitespace
    THEN IF Tail(s) # <<>> /\ Head(Tail(s)) \in Whitespace
           THEN replaceSpaces(Tail(s))
           ELSE <<"-">> \o replaceSpaces(Tail(s))
    ELSE <<Head(s)>> \o replaceSpaces(Tail(s))

\* `plants/${userId}/${plantObjId}/${uuidv4()}-${...}` of uploadFile
fileKey001(userId, plantObjId, name) ==
  <<"plants", "/">> \o userId \o <<"/">> \o plantObjId \o <<"/">> \o Uuid \o <<"-">> \o name

\* `plants/${uuidv4()}-${...}` of the upload routes
fileKey002(name) == <<"plants", "/">> \o Uuid \o <<"-">> \o name

\* `https://${process.env.DO_SPACES_BUCKET}.nyc3.digitaloceanspaces.com/${fileKey}`
fileUrl(key) ==
  <<"https:", "/", "/", "bucket", ".", "nyc3.digitaloceanspaces", ".com", "/">> \o key

\* String.prototype.split: the pieces of s between the occurrences of sep
RECURSIVE split(_, _)
split(s, sep) ==
  LET at == {i \in 1..(Len(s) - Len(sep) + 1) : SubSeq(s, i, i + Len(sep) - 1) = sep}
  IN  IF at = {} THEN <<s>>
      ELSE LET i == CHOOSE j \in at : \A k \in at : j <= k
           IN  <<SubSeq(s, 1, i - 1)>> \o split(SubSeq(s, i + Len(sep), Len(s)), sep)

\* fileUrl.split('.com/')[1]
deleteKey(url) == split(url, <<".com", "/">>)[2]

NoNaming ==
  [variant |-> "none", pc |-> "idle", userId |-> <<>>, plantObjId |-> <<>>,
   originalname |-> <<>>, name |-> <<>>, key |-> <<>>, url |-> <<>>,
   deleted |-> <<>>, store |-> {}]

\* uploadFile(file, userId, plantObjId) of part_001: the arguments are present
\* (a missing one throws before a key is made); puts the blob, returns its URL
uploadFile001 ==
  /\ naming.pc = "idle"
  /\ \E u \in Texts(IdChars, 2) \ {<<>>}, p \in Texts(IdChars, 2) \ {<<>>},
        n \in Texts(NameChars, MaxLen) :
       LET name == replaceDisallowed(n)
           key == fileKey001(u, p, name)
       IN  naming' = [variant |-> "p001", pc |-> "uploaded", userId |-> u,
                      plantObjId |-> p, originalname |-> n, name |-> name,
                      key |-> key, url |-> fileUrl(key), deleted |-> <<>>,
                      store |-> {key}]
  /\ UNCHANGED <<blobs, rows, checkedOut, nextUuid, nextId, req, raw, agg, fetched, response>>

\* deleteFile(fileUrl) of part_001, called with the URL uploadFile returned
deleteFile001 ==
  /\ naming.pc = "uploaded"
  /\ naming.variant = "p001"
  /\ LET key == deleteKey(naming.url)
     IN  naming' = [naming EXCEPT !.pc = "deleted", !.deleted = key,
                                  !.store = naming.store \ {key}]
  /\ UNCHANGED <<blobs, rows, checkedOut, nextUuid, nextId, req, raw, agg, fetched, response>>

\* POST /upload of part_002 and part_006: the key and the put
uploadRoute ==
  /\ naming.pc = "idle"
  /\ \E v \in {"p002", "p006"}, n \in Texts(NameChars, MaxLen) :
       LET name == replaceSpaces(n)
           key == fileKey002(name)
       IN  naming' = [NoNaming EXCEPT !.variant = v, !.pc = "uploaded",
                                      !.originalname = n, !.name = name,
                                      !.key = key, !.url = fileUrl(key),
                                      !.store = {key}]
  /\ UNCHANGED <<blobs, rows, checkedOut, nextUuid, nextId, req, raw, agg, fetched, response>>

\* ------------------------------------------------------------ specification
\* The stores are those of a running installation: one photo of plant object 1 of
\* user 1 was uploaded earlier (row 1, blob under filename 1).
Init ==
  /\ blobs = {getFileKey(1, 1, 1)}
  /\ rows = {AddPhoto(1, 1, 1, 1, "d1")}
  /\ checkedOut = 0
  /\ nextUuid = 2
  /\ nextId = 2
  /\ req = [r \in Req |-> NoReq]
  /\ raw = [variant |-> "none", row |-> NoRow]
  /\ agg = AssembleRow("index", NoRow)
  /\ fetched = [variant |-> "none", rows |-> <<>>]
  /\ response = NoResponse
  /\ naming = NoNaming

\* the steps of the handlers, by route
StageNext(r) ==
  \/ StageStart(r)
  \/ StageCheckPlant(r)
  \/ StagePut(r)
  \/ StageGetConn(r)
  \/ StageBegin(r)
  \/ StageInsert(r)
  \/ StageSelect(r)
  \/ StageCommit(r)
  \/ StageRollback(r)

PlantStageNext(r) ==
  \/ PlantStageStart(r)
  \/ PlantStageCheckPlant(r)
  \/ PlantStageGetConn(r)
  \/ PlantStageBegin(r)
  \/ PlantStageInsert(r)
  \/ PlantStageUpload(r)
  \/ PlantStageInsertImage(r)
  \/ PlantStageCommit(r)
  \/ PlantStageRollback(r)

PhotoNext(r) ==
  \/ PhotoAddStart(r)
  \/ PhotoAddPut(r)
  \/ PhotoAddSP(r)
  \/ PhotoDeleteStart(r)
  \/ PhotoDeleteSP(r)
  \/ PhotoDeleteFile(r)
  \/ GetPlantsStart(r)
  \/ GetPlantsSP(r)

Photo008Next(r) ==
  \/ Photo008Start(r)
  \/ Photo008Put(r)
  \/ Photo008SP(r)

\* the handlers of the current sources (src/index.js, part_003, part_000)
Next == \E r \in Req : StageNext(r) \/ PlantStageNext(r) \/ PhotoNext(r)

Spec == Init /\ [][Next]_vars

\* the photo routes alone: uploads, deletes and reads of the photos of a plant object
SpecPhoto == Init /\ [][\E r \in Req : PhotoNext(r)]_vars

\* a pool under load: all connections but one or two are in use by requests outside
\* the model, which keep them
InitPool ==
  /\ blobs = {getFileKey(1, 1, 1)}
  /\ rows = {AddPhoto(1, 1, 1, 1, "d1")}
  /\ checkedOut \in {connectionLimit - 1, connectionLimit - 2}
  /\ nextUuid = 2
  /\ nextId = 2
  /\ req = [r \in Req |-> NoReq]
  /\ raw = [variant |-> "none", row |-> NoRow]
  /\ agg = AssembleRow("index", NoRow)
  /\ fetched = [variant |-> "none", rows |-> <<>>]
  /\ response = NoResponse
  /\ naming = NoNaming

\* POST /api/plant-stages/upload under load; every call a handler awaits settles
SpecPool ==
  /\ InitPool
  /\ [][\E r \in Req : StageNext(r)]_vars
  /\ \A r \in Req : WF_vars(StageNext(r))

\* the stores with a note of plant object 1 of user 1 next to its photo
InitEdit ==
  /\ blobs = {getFileKey(1, 1, 1)}
  /\ rows = {AddPhoto(1, 1, 1, 1, "d1"), Row("note", 1, 1, 1, 0, "d1")}
  /\ checkedOut = 0
  /\ nextUuid = 2
  /\ nextId = 2
  /\ req = [r \in Req |-> NoReq]
  /\ raw = [variant |-> "none", row |-> NoRow]
  /\ agg = AssembleRow("index", NoRow)
  /\ fetched = [variant |-> "none", rows |-> <<>>]
  /\ response = NoResponse
  /\ naming = NoNaming

EditNext(r) ==
  \/ NoteDeleteStart(r)
  \/ NoteDeleteSP(r)
  \/ PhotoEditStart(r)
  \/ PhotoEditSP(r)

\* the note delete and the photo edit alone
SpecEdit == InitEdit /\ [][\E r \in Req : EditNext(r)]_vars

\* the stores with a photo row that has no filename: the filename column is filled
\* from AddPhoto's argument, a row stored without one has no blob either
InitNoFilename ==
  /\ blobs = {}
  /\ rows = {AddPhoto(1, 1, 1, 0, "d1")}
  /\ checkedOut = 0
  /\ nextUuid = 2
  /\ nextId = 2
  /\ req = [r \in Req |-> NoReq]
  /\ raw = [variant |-> "none", row |-> NoRow]
  /\ agg = AssembleRow("index", NoRow)
  /\ fetched = [variant |-> "none", rows |-> <<>>]
  /\ response = NoResponse
  /\ naming = NoNaming

\* the photo routes over that store
SpecNoFilename == InitNoFilename /\ [][\E r \in Req : PhotoNext(r)]_vars

\* the photo upload of the earlier version alone
SpecPhoto008 == Init /\ [][\E r \in Req : Photo008Next(r)]_vars

\* the stage upload routes alone
SpecStage == Init /\ [][\E r \in Req : StageNext(r) \/ PlantStageNext(r)]_vars

\* the row mapping alone, over every raw row
SpecAssemble == Init /\ [][Assemble]_vars

\* the row mapping alone, over the representations of the date columns
SpecDates == Init /\ [][AssembleDated]_vars

\* the listing alone, over every short result set
SpecList == Init /\ [][ListPlants]_vars

\* the object keys alone, over every short file name and id
SpecKey == Init /\ [][uploadFile001 \/ deleteFile001 \/ uploadRoute]_vars

\* ================================================================== claims
Done(r) == req[r].pc = "done"

\* the blob a row refers to (0: the row has no image reference)
BlobOf(x) ==
  IF x.tbl = "photo" /\ IsUrl(x.image) THEN KeyOfUrl(x.user, x.plant, x.image)
  ELSE IF x.tbl = "photo" THEN getFileKey(x.user, x.plant, x.image)
  ELSE IF x.tbl = "plant_stages" THEN Key(0, x.plant, x.image)
  ELSE Key(x.user, 0, x.image)

\* the plant_stages rows a stage upload request has committed
StageRowsOf(r) == {x \in rows : x.tbl = "plant_stages" /\ x.image = req[r].key}

\* C1: in POST /api/plant-stages/upload, once the blob is uploaded and a statement of
\* the transaction has failed, the store never holds a plant_stages row of that
\* request, the blob stays in the object store, and the request ends with 500.
C1_RollbackKeepsBlob ==
  \A r \in Req :
    (req[r].kind = "stageUpload" /\ req[r].putOk /\ req[r].txFailed) =>
      /\ StageRowsOf(r) = {}
      /\ Key(0, req[r].plantId, req[r].key) \in blobs
      /\ Done(r) => req[r].resp = 500 /\ req[r].tx = {} /\ ~req[r].conn

\* the INSERT had succeeded and a later statement failed; the request is over
C1_Witness ==
  \E r \in Req :
    /\ req[r].kind = "stageUpload" /\ req[r].putOk /\ req[r].txFailed
    /\ req[r].rowId # 0 /\ Done(r)

UploadKinds == {"stageUpload", "photoAdd", "plantStage"}

\* C2: in every upload handler, a request whose object-store put failed ends with
\* 500 and has attempted no relational write.
C2_PutFailureNoWrite ==
  \A r \in Req :
    (req[r].kind \in UploadKinds /\ req[r].putTried /\ ~req[r].putOk /\ Done(r)) =>
      req[r].resp = 500 /\ ~req[r].writeTried

\* the request lacks a required field of its route
LacksField(r) ==
  \/ req[r].kind = "stageUpload"
       /\ (~req[r].file \/ ~req[r].status \/ req[r].plantId = 0)
  \/ req[r].kind = "photoAdd"
       /\ (~req[r].file \/ req[r].userId = 0 \/ req[r].plantId = 0)

\* C3: an upload request (plant-stages/upload, photos/add) that lacks the file, the
\* plant identifier, the user identifier or the status label is answered 400
\* "Missing required fields" and has performed no put and no relational call.
C3_MissingFields ==
  \A r \in Req :
    LacksField(r) =>
      /\ Done(r) /\ req[r].resp = 400 /\ req[r].msg = "Missing required fields"
      /\ ~req[r].putTried /\ ~req[r].dbTried /\ ~req[r].writeTried
      /\ req[r].key = 0 /\ req[r].tx = {}

\* both routes have rejected a request
C3_Witness ==
  /\ \E r \in Req : req[r].kind = "stageUpload" /\ ~req[r].status /\ req[r].resp = 400
  /\ \E r \in Req : req[r].kind = "photoAdd" /\ ~req[r].file /\ req[r].resp = 400

SameDelete(r, s) ==
  /\ req[r].kind = "photoDelete" /\ req[s].kind = "photoDelete"
  /\ req[r].userId = req[s].userId /\ req[r].plantId = req[s].plantId
  /\ req[r].photoId = req[s].photoId

\* a delete whose DeletePhoto call matched no row answers 404 without deleteFile
C4_NotFound ==
  \A r \in Req :
    (req[r].kind = "photoDelete" /\ req[r].noMatch) =>
      Done(r) /\ req[r].resp = 404 /\ ~req[r].delTried /\ ~req[r].dbDeleted

\* after a 404, the DeletePhoto call of the same request repeated matches nothing
C4_Repeat ==
  \A r, s \in Req :
    (r # s /\ SameDelete(r, s) /\ req[r].resp = 404 /\ req[r].noMatch
       /\ req[s].pc = "deleteSP" /\ req'[s].pc # "deleteSP") =>
      req'[s].resp \in {404, 500} /\ ~req'[s].dbDeleted /\ ~req'[s].delTried

\* C4: when DeletePhoto matches no row of the given plant/user the handler answers
\* 404, never calls deleteFile, and the same request repeated ends the same way.
C4_DeleteNotFound == [] C4_NotFound /\ [][C4_Repeat]_vars

\* the same delete was answered 404 twice
C4_Witness ==
  \E r, s \in Req :
    /\ r # s /\ SameDelete(r, s)
    /\ req[r].resp = 404 /\ req[s].resp = 404 /\ req[r].noMatch /\ req[s].noMatch

\* C5: a photo delete that answers success has removed the row and the blob.
C5_SuccessRemovesBoth ==
  \A r \in Req :
    (req[r].kind = "photoDelete" /\ req[r].resp = 200) =>
      /\ req[r].dbDeleted
      /\ DeletePhotoMatch(rows, req[r].userId, req[r].plantId, req[r].photoId) = {}
      /\ getFileKey(req[r].userId, req[r].plantId, req[r].delKey) \notin blobs

\* the delete handlers that go on to the storage delete (index.js, part_009)
StorageDeleting(r) == req[r].kind = "photoDelete" /\ req[r].variant \in {"index", "p009"}

\* C6 as stated: no finished photo delete leaves the blob of a row it removed.
C6_NoOrphanBlob ==
  \A r \in Req :
    (StorageDeleting(r) /\ Done(r) /\ req[r].dbDeleted) =>
      getFileKey(req[r].userId, req[r].plantId, req[r].delKey) \notin blobs

\* C6 amended: the storage delete is issued only for a row the DB delete has removed,
\* so no delete removes the blob of a row that still exists; the blob of a removed
\* row is left behind exactly when the storage delete failed, and the answer is 500.
C6_BlobDeletedOnlyAfterRow ==
  \A r \in Req :
    StorageDeleting(r) =>
      /\ req[r].delTried =>
           /\ req[r].dbDeleted
           /\ DeletePhotoMatch(rows, req[r].userId, req[r].plantId, req[r].photoId) = {}
      /\ ~req[r].dbDeleted => req[r].delKey = 0
      /\ (Done(r) /\ req[r].dbDeleted) =>
           /\ req[r].delTried
           /\ (getFileKey(req[r].userId, req[r].plantId, req[r].delKey) \in blobs)
                <=> (req[r].resp = 500)

\* the DB delete removed the row, the storage delete failed: the blob is left
C6_Witness ==
  \E r \in Req :
    /\ StorageDeleting(r) /\ Done(r) /\ req[r].dbDeleted /\ req[r].resp = 500
    /\ getFileKey(req[r].userId, req[r].plantId, req[r].delKey) \in blobs

\* C7: every committed row that has an image reference refers to a blob that is in
\* the object store.
C7_RowsHaveBlobs ==
  \A x \in rows : x.image # 0 => BlobOf(x) \in blobs

\* an upload has stored a row and a delete has removed one, each after a failed try
C7_Witness ==
  /\ \E a \in Req : /\ req[a].kind = "photoAdd" /\ req[a].resp = 200
                    /\ \E x \in rows : x.tbl = "photo" /\ x.id = req[a].rowId
  /\ \E d \in Req : req[d].kind = "photoDelete" /\ req[d].dbDeleted /\ Done(d)

\* the read g lists a photo with this id, filename and date_taken
Lists(g, id, filename, date) ==
  \E i \in 1..Len(req[g].body) :
    \E j \in 1..Len(req[g].body[i].photos.val) :
      LET ph == req[g].body[i].photos.val[j]
      IN ph.id = id /\ ph.filename = filename /\ ph.date_taken = date

ListsId(g, id) ==
  \E i \in 1..Len(req[g].body) :
    \E j \in 1..Len(req[g].body[i].photos.val) : req[g].body[i].photos.val[j].id = id

Mapped == raw.variant # "none"

\* the documented empty default of a sub-document
DefaultOf(f) ==
  IF f \in {"variety", "stage", "location"} THEN JsVal(EmptyObject)
  ELSE IF f = "warning" THEN JsVal(WarningDefault)
  ELSE JsVal(EmptyList)

\* the value of a well-formed, present column of the row
ParsedOf(f) ==
  IF f = "photos" /\ raw.variant # "p008"
  THEN JsVal(normalizedPhotos(raw.row[f].val))
  ELSE JsVal(raw.row[f].val)

\* C9: with exactly one sub-document malformed, that field of the aggregate is its
\* empty default and every sibling carries the value parsed from the row.
C9_OneMalformed ==
  \A f \in SubDocs :
    (Mapped /\ f \in ColumnsRead(raw.variant) /\ raw.row[f].enc = "bad"
       /\ \A g \in SubDocs \ {f} : raw.row[g].enc # "bad") =>
      /\ ~agg.threw
      /\ agg[f] = DefaultOf(f)
      /\ \A g \in (SubDocs \cap ColumnsRead(raw.variant)) \ {f} :
           raw.row[g].enc \in {"obj", "str"} => agg[g] = ParsedOf(g)

\* C10: whatever the encoding of the columns, no sub-document of the returned
\* aggregate is null.
C10_NeverNull ==
  Mapped => /\ ~agg.threw
            /\ \A f \in SubDocs : ~agg[f].null

\* the rows POST /api/plants/:plantId/stages writes for request r
PlantStageRow(r) == {x \in rows : x.tbl = "plant_stages" /\ x.user = 1 /\ x.id = req[r].rowId}
PlantStageImageRow(r) == {x \in rows : x.tbl = "plant_stage_images" /\ x.id = req[r].rowId}

\* C12: in POST /api/plants/:plantId/stages with an image, the committed store holds
\* the plant_stages row and the plant_stage_images row of the request together or
\* neither of them, also after the upload or the second insert failed; and every
\* plant_stage_images row has its plant_stages row.
C12_StageAndImageTogether ==
  /\ \A r \in Req :
       (req[r].kind = "plantStage" /\ req[r].file) =>
         /\ (PlantStageRow(r) # {}) <=> (PlantStageImageRow(r) # {})
         /\ (PlantStageRow(r) # {}) <=> req[r].committed
  /\ \A x \in rows :
       x.tbl = "plant_stage_images" =>
         \E y \in rows : y.tbl = "plant_stages" /\ y.user = 1 /\ y.id = x.id

\* one upload committed both rows; another lost its upload or its second insert
\* after the first insert and left no row
C12_Witness ==
  /\ \E r \in Req : /\ req[r].kind = "plantStage" /\ req[r].file /\ req[r].committed
                    /\ PlantStageRow(r) # {} /\ PlantStageImageRow(r) # {}
  /\ \E r \in Req : /\ req[r].kind = "plantStage" /\ req[r].file /\ req[r].rowId # 0
                    /\ Done(r) /\ req[r].resp = 500
                    /\ PlantStageRow(r) = {} /\ PlantStageImageRow(r) = {}

\* the key under which upload r puts its blob
UploadKey(r) == fileKey(req[r].userId, req[r].plantId, req[r].key)

\* two uploads that have built their keys have different keys
C13_DistinctKeys ==
  \A r, s \in Req :
    (r # s /\ req[r].kind = "photoAdd008" /\ req[s].kind = "photoAdd008"
       /\ req[r].putTried /\ req[s].putTried) =>
      UploadKey(r) # UploadKey(s)

\* a put that succeeds writes a key that held no blob
C13_NoOverwrite ==
  \A r \in Req :
    (req[r].kind = "photoAdd008" /\ req[r].pc = "put" /\ req'[r].putOk) =>
      UploadKey(r) \notin blobs /\ blobs' = blobs \cup {UploadKey(r)}

\* C13: two uploads, one after the other or overlapping, for the same user, plant
\* and original file name put their blobs under different keys, and no put writes
\* over a blob that is already stored.
C13_UniqueKeys == [] C13_DistinctKeys /\ [][C13_NoOverwrite]_vars

\* two uploads for the same user and plant have both put their blobs
C13_Witness ==
  \E r, s \in Req :
    /\ r # s /\ req[r].kind = "photoAdd008" /\ req[s].kind = "photoAdd008"
    /\ req[r].userId = req[s].userId /\ req[r].plantId = req[s].plantId
    /\ req[r].putOk /\ req[s].putOk
    /\ UploadKey(r) \in blobs /\ UploadKey(s) \in blobs

PhotoAddKinds == {"photoAdd", "photoAdd008"}

\* C14: the date POST /api/photos/add hands to AddPhoto as date_taken is the
\* caller's dateTaken when one is given, and otherwise the date the metadata
\* extractor returns for the image.
C14_DatePrecedence ==
  \A r \in Req :
    (req[r].kind \in PhotoAddKinds /\ req[r].writeTried) =>
      req[r].date = IF req[r].dateTaken # "none" THEN NewDate(req[r].dateTaken)
                    ELSE getImageDate(req[r].meta).date

\* C15: getImageDate never throws, and for an image without capture-time metadata,
\* one the reader throws on, or one whose metadata text is no date, it returns the
\* current time.
C15_ImageDateNeverFails ==
  \A r \in Req :
    (req[r].kind = "photoAdd008" /\ req[r].dated) =>
      /\ ~getImageDate(req[r].meta).threw
      /\ req[r].meta \in {"none", "unreadable", "garbled"} => req[r].date = "now"

\* the end states of an upload request of POST /api/plant-stages/upload
Rejected(r) == Done(r) /\ req[r].resp # 200 /\ ~req[r].putTried
StorageFailed(r) == Done(r) /\ req[r].resp = 500 /\ req[r].putTried /\ ~req[r].putOk
RolledBack(r) ==
  /\ Done(r) /\ req[r].resp = 500 /\ req[r].putOk
  /\ ~req[r].committed /\ StageRowsOf(r) = {}
Committed(r) ==
  /\ Done(r) /\ req[r].resp = 200 /\ req[r].putOk
  /\ req[r].committed /\ StageRowsOf(r) # {}

EndStates(r) ==
  {e \in {"Rejected", "StorageFailed", "RolledBack", "Committed"} :
     \/ e = "Rejected" /\ Rejected(r)
     \/ e = "StorageFailed" /\ StorageFailed(r)
     \/ e = "RolledBack" /\ RolledBack(r)
     \/ e = "Committed" /\ Committed(r)}

\* the phases come in order, and a finished request is in exactly one end state
C16_States ==
  \A r \in Req :
    req[r].kind = "stageUpload" =>
      /\ req[r].putTried => req[r].dbTried
      /\ req[r].date # "none" => req[r].putOk
      /\ (req[r].conn \/ req[r].writeTried) => req[r].date # "none"
      /\ req[r].committed => req[r].writeTried
      /\ Done(r) => Cardinality(EndStates(r)) = 1

\* a finished request takes no further step
C16_TerminalStays ==
  \A r \in Req :
    (req[r].kind = "stageUpload" /\ Done(r)) =>
      /\ req'[r] = req[r]
      /\ req[r].key # 0 => StageRowsOf(r)' = StageRowsOf(r)

\* C16: an upload request goes through validation, upload, dating, persisting and
\* commit in that order on success, and otherwise ends in exactly one of Rejected,
\* StorageFailed and RolledBack; a finished request performs no further operation.
C16_UploadStateMachine == [] C16_States /\ [][C16_TerminalStays]_vars

\* C17: every response with status 400, 404 or 500 has a body with a message field
\* and an error field.
C17_ErrorBody ==
  \A r \in Req :
    (Done(r) /\ req[r].resp \in {400, 404, 500}) =>
      req[r].msg # "none" /\ req[r].err

\* the upload names a plant that does not exist or is not the user's
NamesUnknownPlant(r) ==
  \/ req[r].kind = "stageUpload" /\ ~LacksField(r) /\ req[r].plantId \notin Plants
  \/ req[r].kind = "plantStage" /\ req[r].plantId \notin Plants

C19_BareFilename ==
  /\ \A r \in Req :
       (req[r].kind \in PhotoAddKinds /\ req[r].writeTried) =>
         ~IsUrl(IF req[r].kind = "photoAdd" THEN req[r].key ELSE req[r].image)
  /\ \A x \in rows : x.tbl = "photo" => ~IsUrl(x.image)
  /\ \A g \in Req :
       (req[g].kind = "getPlants" /\ req[g].resp = 200) =>
         \A i \in 1..Len(req[g].body) :
           \A j \in 1..Len(req[g].body[i].photos.val) :
             ~IsUrl(req[g].body[i].photos.val[j].filename)

\* C20: in the aggregate the part_009 mapping returns for a row, date_planted and
\* date_updated are null when the column is null and a YYYY-MM-DD calendar date
\* otherwise, for well-formed and for malformed rows.
C20_CalendarDates ==
  (Mapped /\ raw.variant = "p009") =>
    /\ ~agg.threw
    /\ agg.date_planted = (IF raw.row.date_planted = "null" THEN "null" ELSE "ymd")
    /\ agg.date_updated = (IF raw.row.date_updated = "null" THEN "null" ELSE "ymd")

\* a handler waits for a connection of the pool
WaitsForConnection(r) == req[r].pc = "getConn"

\* no handler that holds a connection waits for another one
C21_NoHoldAndWait ==
  \A r \in Req : req[r].kind = "stageUpload" /\ req[r].conn => ~WaitsForConnection(r)

\* every request that has started finishes
C21_Finishes == \A r \in Req : (req[r].pc # "idle") ~> Done(r)

\* C21: in POST /api/plant-stages/upload no handler holds a pooled connection while
\* it waits for one, and with a pool of one or two free connections every upload
\* that has started finishes, whatever the number of uploads that wait.
C21_PoolProgress == [] C21_NoHoldAndWait /\ C21_Finishes

\* the pool is exhausted: an upload waits for a connection while another holds one
C21_Witness ==
  \E r, s \in Req :
    /\ r # s /\ req[r].kind = "stageUpload" /\ req[s].kind = "stageUpload"
    /\ req[r].conn /\ WaitsForConnection(s) /\ checkedOut = connectionLimit

\* ------------------------------------------------------ claims on the keys
\* C22: the name component of every generated object key contains only characters
\* of [A-Za-z0-9.-].
C22_NameSanitized ==
  naming.pc # "idle" => \A i \in 1..Len(naming.name) : naming.name[i] \in AllowedChars

\* C30: the key deleteFile derives from the URL uploadFile returned is the key of
\* the put, so the delete removes the blob that was uploaded.
C30_DeleteByUrl ==
  naming.pc = "deleted" => naming.deleted = naming.key /\ naming.store = {}

\* ------------------------------------- claims on the note delete and photo edit
C23_Step(r) ==
  (req[r].kind = "noteDelete" /\ req[r].pc = "deleteNote" /\ req'[r].pc = "done") =>
    /\ req'[r].resp = 404 <=> req'[r].noMatch
    /\ req'[r].resp = 404 => rows' = rows
    /\ req'[r].resp = 200 =>
         /\ rows' # rows
         /\ rows \ rows' =
              DeleteNoteMatch(rows, req[r].userId, req[r].plantId, req[r].noteId)
    /\ req'[r].noMatch <=>
         (req'[r].resp # 500 /\
          DeleteNoteMatch(rows, req[r].userId, req[r].plantId, req[r].noteId) = {})

\* C23: the note delete answers 404 exactly when the DeleteNote call removed no
\* note, and then the stored notes are unchanged; it answers success only when the
\* note row was removed.
C23_NoteDelete == [][\A r \in Req : C23_Step(r)]_vars

\* one delete removed the note and answered success, the same delete repeated
\* found nothing and answered 404
C23_Witness ==
  \E r, s \in Req :
    /\ req[r].kind = "noteDelete" /\ req[s].kind = "noteDelete"
    /\ req[r].resp = 200 /\ req[r].dbDeleted
    /\ req[s].resp = 404 /\ req[s].noMatch
    /\ req[r].noteId = req[s].noteId /\ req[r].userId = req[s].userId

\* the body of the edit request lacks dateTaken or stageId
LacksEditField(q) == q.dateTaken = "none" \/ q.stageId = 0

C24_Step(r) ==
  /\ (req'[r].kind = "photoEdit" /\ req[r].pc = "idle" /\ req'[r].pc # "idle") =>
       /\ LacksEditField(req'[r]) =>
            req'[r].resp = 400 /\ ~req'[r].dbTried /\ rows' = rows
       /\ ~LacksEditField(req'[r]) =>
            req'[r].resp # 400 /\ req'[r].dbTried
  /\ (req[r].kind = "photoEdit" /\ req[r].pc = "editSP" /\ req'[r].pc = "done") =>
       LET m == EditPhotoMatch(rows, req[r].userId, req[r].plantId, req[r].photoId)
       IN  /\ (m = {} /\ req'[r].resp # 500) => req'[r].resp = 404 /\ rows' = rows
           /\ req'[r].resp = 200 =>
                /\ m # {}
                /\ \A x \in EditPhotoMatch(rows', req[r].userId, req[r].plantId,
                                           req[r].photoId) :
                     x.date = req[r].dateTaken /\ x.stage = req[r].stageId

\* C24: the photo edit with dateTaken or stageId missing answers 400 without
\* calling EditPhoto; with both present it answers 404 when EditPhoto matches no
\* photo of that user and plant, and success only when a photo was updated.
C24_PhotoEdit == [][\A r \in Req : C24_Step(r)]_vars

\* an edit without stageId was answered 400, an edit of another user's photo 404,
\* and an edit of the user's photo success
C24_Witness ==
  \E r, s \in Req :
    /\ req[r].kind = "photoEdit" /\ req[s].kind = "photoEdit"
    /\ \/ req[r].resp = 400 /\ req[r].dateTaken # "none" /\ req[r].stageId = 0
       \/ req[r].resp = 404 /\ req[r].noMatch
    /\ req[s].resp = 200 /\ req[s].dbUpdated
    /\ \E x \in rows : x.tbl = "photo" /\ x.date = "d2" /\ x.stage = 2

\* ------------------------------------------------ claims on the connections
\* C25: an upload handler that has answered holds no connection, and when no
\* request is in progress no connection is checked out.
C25_ReleasedOnce ==
  /\ \A r \in Req : (req[r].kind \in {"stageUpload", "plantStage"} /\ Done(r)) => ~req[r].conn
  /\ (\A r \in Req : req[r].pc \in {"idle", "done"}) => checkedOut = 0

\* ------------------------------------------------ claims on the error answers
\* the rows of the store that the upload request r inserted
NewRowsOf(r) ==
  {x \in rows : x.tbl \in {"plant_stages", "photo"} /\ req[r].rowId # 0
                /\ x.id = req[r].rowId}

C26_Step(r) ==
  (req'[r].kind \in {"stageUpload", "photoAdd"} /\ req[r].pc # "done"
     /\ req'[r].pc = "done" /\ req'[r].resp = 500) => NewRowsOf(r)' = {}

\* C26: when an upload handler answers 500, the relational store holds no row of
\* that request.
C26_ErrorMeansNoRow == [][\A r \in Req : C26_Step(r)]_vars

\* ------------------------------------------------ claims on the photo delete
C27_Step(r) ==
  (req[r].kind = "photoDelete" /\ req[r].pc = "deleteSP" /\ req'[r].resp = 404) =>
    rows' = rows

\* C27: a photo delete that answers 404 has deleted no photo row.
C27_NotFoundDeletesNothing == [][\A r \in Req : C27_Step(r)]_vars

\* the DeletePhoto call of the delete request r has settled
DeleteSettled(r) == req[r].dbDeleted \/ req[r].noMatch

\* C28 as stated: of two finished deletes of the same photo at most one answers
\* success, the other answers 404, and at most one issues the storage delete.
C28_OtherAnswers404 ==
  \A r, s \in Req :
    (r # s /\ SameDelete(r, s) /\ StorageDeleting(r) /\ StorageDeleting(s)
       /\ Done(r) /\ Done(s)) =>
      /\ ~(req[r].resp = 200 /\ req[s].resp = 200)
      /\ req[r].resp = 200 => req[s].resp = 404
      /\ ~(req[r].delTried /\ req[s].delTried)

\* C28 amended: of two deletes of the same photo, in every interleaving, at most
\* one answers success, at most one removes the row and at most one issues the
\* storage delete; the other answers 404 once its DeletePhoto call has settled
\* (and 500 when that call fails).
C28_ConcurrentDeletes ==
  \A r, s \in Req :
    (r # s /\ SameDelete(r, s) /\ StorageDeleting(r) /\ StorageDeleting(s)) =>
      /\ ~(req[r].resp = 200 /\ req[s].resp = 200)
      /\ ~(req[r].delTried /\ req[s].delTried)
      /\ ~(req[r].dbDeleted /\ req[s].dbDeleted)
      /\ (req[r].dbDeleted /\ DeleteSettled(s)) => req[s].resp = 404 /\ req[s].noMatch
      /\ (req[r].dbDeleted /\ Done(s)) => req[s].resp \in {404, 500}

\* both deletes were in progress together: one has removed the row and awaits the
\* storage delete, the other has been answered 404 meanwhile
C28_Witness ==
  \E r, s \in Req :
    /\ r # s /\ SameDelete(r, s) /\ StorageDeleting(r) /\ StorageDeleting(s)
    /\ req[r].pc = "deleteFile" /\ req[r].dbDeleted
    /\ req[s].resp = 404 /\ req[s].noMatch

\* C29: in POST /api/plant-stages/upload, a 500 answer for a failure of the
\* relational transaction after a successful put is not reported as an S3 upload
\* failure.
C29_CauseIdentifiesStep ==
  \A r \in Req :
    (req[r].kind = "stageUpload" /\ req[r].resp = 500 /\ req[r].putOk /\ req[r].txFailed) =>
      Head(req[r].error) # "S3 upload failed"

\* ---------------------------------------------------- claims on the listing
Listed == response.sent

\* C11: GET /api/plants answers 200 with exactly one aggregate per row of the
\* result set, in the order of the rows, also when the mapping of a row fails.
C11_OnePerRowInOrder ==
  Listed =>
    /\ response.status = 200
    /\ Len(response.body) = Len(fetched.rows)
    /\ \A i \in 1..Len(fetched.rows) :
         response.body[i].plant_obj_id = fetched.rows[i].plant_obj_id

====
